---- MODULE Spec2Model ----
(***************************************************************************)
(* Model of the trivia API (backend/flaskr/__init__.py, backend/models.py).*)
(* The state is the two tables of the store (questions, categories) with   *)
(* their id sequences; every request handler is one action that reads the  *)
(* request, changes the store as the handler does and leaves the response  *)
(* in resp.  Text is a sequence of one-character strings so that strip(),  *)
(* int(), str() and ILIKE are computed, not assumed.                       *)
(***************************************************************************)
EXTENDS Integers, Sequences, FiniteSets, TLC

\* flaskr/__init__.py:7
QUESTIONS_PER_PAGE == 10

\* Bounds of the model.
MaxSeed == 11
MaxCatSeed == 1
MaxWrites == 2
MaxQuizSeed == 4

\* questions, categories: the rows of the two tables (models.py:33-40, 71-75)
\* nextQid, nextCid: the next value of each table's id sequence
\* writes: the number of commits made so far (bounded by MaxWrites)
\* req, resp: the request being answered and its response; op "none" when
\*            the server is idle
\* last: the GET exchange a client has kept, with the tables it was
\*       answered from (used by SpecRepeat only)
\* session: a client's quiz session (used by SpecQuiz only)
\* race: two POST /categories requests in flight at once (used by SpecRace
\*       only)
VARIABLES questions, categories, nextQid, nextCid, writes, req, resp,
          last, session, race

vars == <<questions, categories, nextQid, nextCid, writes, req, resp,
          last, session, race>>
aux == <<last, session, race>>
store == <<questions, categories, nextQid, nextCid, writes>>

-----------------------------------------------------------------------------
(* Text and JSON values *)

Min(a, b) == IF a < b THEN a ELSE b
Max(a, b) == IF a > b THEN a ELSE b

DigitChars == <<"0", "1", "2", "3", "4", "5", "6", "7", "8", "9">>
IsDigit(c) == \E d \in 1..10 : DigitChars[d] = c
DigitVal(c) == (CHOOSE d \in 1..10 : DigitChars[d] = c) - 1

\* str.strip(): whitespace removed at both ends
RECURSIVE lstrip(_)
lstrip(s) == IF s # <<>> /\ Head(s) = " " THEN lstrip(Tail(s)) ELSE s
RECURSIVE rstrip(_)
rstrip(s) ==
    IF s # <<>> /\ s[Len(s)] = " " THEN rstrip(SubSeq(s, 1, Len(s) - 1)) ELSE s
strip(s) == rstrip(lstrip(s))

\* str(n) of an integer
RECURSIVE DigitsOf(_)
DigitsOf(n) ==
    IF n < 10 THEN <<DigitChars[n + 1]>>
    ELSE Append(DigitsOf(n \div 10), DigitChars[(n % 10) + 1])
ToText(n) == IF n < 0 THEN <<"-">> \o DigitsOf(0 - n) ELSE DigitsOf(n)

\* int(s) of a text: surrounding whitespace and a leading sign are accepted,
\* anything else raises ValueError
RECURSIVE DigitsValue(_)
DigitsValue(s) ==
    IF s = <<>> THEN 0
    ELSE 10 * DigitsValue(SubSeq(s, 1, Len(s) - 1)) + DigitVal(s[Len(s)])
Unsigned(s) == IF s # <<>> /\ Head(s) = "-" THEN Tail(s) ELSE s
IsIntText(s) ==
    LET u == Unsigned(strip(s))
    IN  u # <<>> /\ \A k \in 1..Len(u) : IsDigit(u[k])
IntOfText(s) ==
    LET t == strip(s)
    IN  IF t # <<>> /\ Head(t) = "-" THEN 0 - DigitsValue(Tail(t))
        ELSE DigitsValue(t)

\* JSON values of a request body
JStr(s) == [t |-> "str", s |-> s, i |-> 0]
JInt(i) == [t |-> "int", s |-> <<>>, i |-> i]
JNull == [t |-> "null", s |-> <<>>, i |-> 0]

\* int(v) of a JSON value: CanInt says whether it returns, PyInt what
CanInt(v) == v.t = "int" \/ (v.t = "str" /\ IsIntText(v.s))
PyInt(v) == IF v.t = "int" THEN v.i ELSE IntOfText(v.s)

\* The value the store keeps in, or compares with, a String column
AsText(v) == IF v.t = "int" THEN ToText(v.i) ELSE v.s

\* lower-casing of ILIKE
lower(c) == IF c = "A" THEN "a" ELSE IF c = "B" THEN "b" ELSE c

\* text ILIKE pattern: % matches any run of characters, _ any one character
RECURSIVE ilike(_, _)
ilike(text, pattern) ==
    IF pattern = <<>> THEN text = <<>>
    ELSE IF Head(pattern) = "%"
         THEN \/ ilike(text, Tail(pattern))
              \/ text # <<>> /\ ilike(Tail(text), pattern)
    ELSE /\ text # <<>>
         /\ Head(pattern) = "_" \/ lower(Head(pattern)) = lower(Head(text))
         /\ ilike(Tail(text), Tail(pattern))

-----------------------------------------------------------------------------
(* models.py *)

\* Question.format()
format(q) ==
    [id |-> q.id, question |-> q.question, answer |-> q.answer,
     category |-> q.category, difficulty |-> q.difficulty]

\* Question(question, answer, category, difficulty) as the row the store
\* keeps after insert(): the category column is a String
Question(id, question, answer, category, difficulty) ==
    [id |-> id, question |-> question, answer |-> answer,
     category |-> ToText(category), difficulty |-> difficulty]

\* Category(type)
Category(id, type) == [id |-> id, type |-> type]

\* Question.query.order_by(Question.id).all()
RECURSIVE OrderById(_)
OrderById(S) ==
    IF S = {} THEN <<>>
    ELSE LET first == CHOOSE q \in S : \A r \in S : q.id <= r.id
         IN  <<first>> \o OrderById(S \ {first})

\* {category.id: category.type for category in categories}
CategoryMap(C) ==
    [i \in {c.id : c \in C} |-> (CHOOSE c \in C : c.id = i).type]

-----------------------------------------------------------------------------
(* Responses and error handlers *)

\* abort(code, description) and any other exception, as raised in a handler
Abort(code, description) ==
    [raised |-> TRUE, http |-> TRUE, code |-> code, description |-> description]
Exception == [raised |-> TRUE, http |-> FALSE, code |-> 0, description |-> ""]
Return(response) == [raised |-> FALSE, response |-> response]

\* @app.errorhandler(404)
not_found(description) ==
    [status |-> 404, success |-> FALSE, error |-> 404, message |-> description]
\* @app.errorhandler(422)
unprocessable(description) ==
    [status |-> 422, success |-> FALSE, error |-> 422, message |-> "unprocessable"]
\* @app.errorhandler(400)
bad_request(description) ==
    [status |-> 400, success |-> FALSE, error |-> 400, message |-> description]
\* an exception no handler catches: no JSON envelope
server_error == [status |-> 500]

\* What the client receives for what the handler raised or returned
Respond(r) ==
    IF ~r.raised THEN r.response
    ELSE IF ~r.http THEN server_error
    ELSE IF r.code = 404 THEN not_found(r.description)
    ELSE IF r.code = 422 THEN unprocessable(r.description)
    ELSE bad_request(r.description)

-----------------------------------------------------------------------------
(* Seeds: the rows the store holds when the application starts *)

SeedTexts == << <<"a", "b">>, <<"A">>, <<"b", "_">> >>
SeedAnswers == << <<"b">>, <<"a">> >>
SeedTypes == << <<"a">>, <<"b">>, <<"A", "b">> >>

SeedQuestion(i) ==
    Question(i, SeedTexts[(i % 3) + 1], SeedAnswers[(i % 2) + 1],
             (i % 2) + 1, (i % 3) + 1)

\* the tables of n questions and c categories, nothing committed yet
SeededStore(n, c) ==
    /\ questions = {SeedQuestion(i) : i \in 1..n}
    /\ nextQid = n + 1
    /\ categories = {Category(k, SeedTypes[k]) : k \in 1..c}
    /\ nextCid = c + 1
    /\ writes = 0

\* no request is being answered
Idle ==
    /\ req = [op |-> "none"]
    /\ resp = [status |-> 0]

NoExchange == [kept |-> FALSE]
NoSession == [on |-> FALSE]
NoRace == <<>>

Init ==
    /\ \E n \in 0..MaxSeed : \E c \in 0..MaxCatSeed : SeededStore(n, c)
    /\ Idle
    /\ last = NoExchange
    /\ session = NoSession
    /\ race = NoRace

-----------------------------------------------------------------------------
(* GET /questions *)

\* request.args.get("page", 1, type=int)
PageArgs ==
    {[present |-> FALSE, text |-> <<>>]}
    \cup {[present |-> TRUE, text |-> t] :
            t \in {<<"1">>, <<"2">>, <<"3">>, <<"0">>, <<"-", "1">>, <<"x">>}}
PageOf(arg) ==
    IF arg.present /\ IsIntText(arg.text) THEN IntOfText(arg.text) ELSE 1

\* seq[start:end] of Python
PySlice(seq, start, end) ==
    LET n == Len(seq)
        s == IF start < 0 THEN Max(n + start, 0) ELSE Min(start, n)
        e == IF end < 0 THEN Max(n + end, 0) ELSE Min(end, n)
    IN  IF s < e THEN SubSeq(seq, s + 1, e) ELSE <<>>

\* mutant: the offset computed from page instead of page - 1
paginate_questions_offByOne(arg, selection) ==
    LET page == PageOf(arg)
        start == page * QUESTIONS_PER_PAGE
        end == start + QUESTIONS_PER_PAGE
        formatted == [k \in 1..Len(selection) |-> format(selection[k])]
    IN  PySlice(formatted, start, end)

paginate_questions(arg, selection) ==
    LET page == PageOf(arg)
        start == (page - 1) * QUESTIONS_PER_PAGE
        end == start + QUESTIONS_PER_PAGE
        formatted == [k \in 1..Len(selection) |-> format(selection[k])]
    IN  PySlice(formatted, start, end)

\* mutant: the empty page is returned instead of raising 404
retrieve_questions_try_noEmptyCheck(arg) ==
    LET selection == OrderById(questions)
        current_questions == paginate_questions(arg, selection)
    IN  Return([status |-> 200, success |-> TRUE,
                questions |-> current_questions,
                total_questions |-> Len(selection),
                categories |-> CategoryMap(categories),
                current_category |-> <<>>])

\* mutant: total_questions taken from the id sequence, not from the rows
retrieve_questions_try_countFromSequence(arg) ==
    LET selection == OrderById(questions)
        current_questions == paginate_questions(arg, selection)
    IN  IF Len(current_questions) = 0
        THEN Abort(404, "resource not found")
        ELSE Return([status |-> 200, success |-> TRUE,
                     questions |-> current_questions,
                     total_questions |-> nextQid - 1,
                     categories |-> CategoryMap(categories),
                     current_category |-> <<>>])

\* the body of the try block
retrieve_questions_try(arg) ==
    LET selection == OrderById(questions)
        current_questions == paginate_questions(arg, selection)
    IN  IF Len(current_questions) = 0
        THEN Abort(404, "resource not found")
        ELSE Return([status |-> 200, success |-> TRUE,
                     questions |-> current_questions,
                     total_questions |-> Len(selection),
                     categories |-> CategoryMap(categories),
                     current_category |-> <<>>])

\* except Exception: abort(404, description="resource not found")
retrieve_questions(arg) ==
    LET r == retrieve_questions_try(arg)
    IN  IF r.raised THEN Respond(Abort(404, "resource not found")) ELSE Respond(r)

RetrieveQuestions ==
    /\ req.op = "none"
    /\ \E arg \in PageArgs :
          /\ req' = [op |-> "retrieve_questions", page |-> arg]
          /\ resp' = retrieve_questions(arg)
    /\ UNCHANGED store

-----------------------------------------------------------------------------
(* DELETE /questions/<question_id> *)

\* the path segment is a string
PathIds ==
    {ToText(i) : i \in {1, 2, MaxSeed, MaxSeed + 1}} \cup {<<"a">>, <<"0", "2">>}

\* Question.query.get(question_id): the store reads the string as an integer
\* and raises when it is none
QueryGet(question_id) ==
    {q \in questions : q.id = IntOfText(question_id)}

\* the body of the try block
delete_question_try(question_id) ==
    IF ~IsIntText(question_id) THEN Exception
    ELSE IF QueryGet(question_id) = {}
         THEN Abort(404, "Question not found")
    ELSE Return([status |-> 200, success |-> TRUE, deleted |-> question_id])

\* mutant: the abort(404) of the try block is let through
delete_question_passHttp(question_id) ==
    LET r == delete_question_try(question_id)
    IN  IF r.raised /\ ~r.http THEN Respond(Abort(422, "")) ELSE Respond(r)

\* except BaseException: abort(422)
delete_question(question_id) ==
    LET r == delete_question_try(question_id)
    IN  IF r.raised THEN Respond(Abort(422, "")) ELSE Respond(r)

\* mutant: the delete is never committed
delete_question_rows_noCommit(question_id) == questions

\* Question.delete(): the rows left once the handler is through
delete_question_rows(question_id) ==
    IF delete_question_try(question_id).raised THEN questions
    ELSE questions \ QueryGet(question_id)

DeleteQuestion ==
    /\ req.op = "none"
    /\ \E question_id \in PathIds :
          /\ delete_question_try(question_id).raised \/ writes < MaxWrites
          /\ req' = [op |-> "delete_question", question_id |-> question_id]
          /\ resp' = delete_question(question_id)
          /\ questions' = delete_question_rows(question_id)
          /\ writes' = IF questions' = questions THEN writes ELSE writes + 1
    /\ UNCHANGED <<categories, nextQid, nextCid>>

-----------------------------------------------------------------------------
(* POST /questions *)

\* request.get_json(): null, or an object of the keys it carries
NullBody == [null |-> TRUE, obj |-> <<>>]
Body(obj) == [null |-> FALSE, obj |-> obj]
Without(obj, key) == [k \in (DOMAIN obj) \ {key} |-> obj[k]]

required_fields == {"question", "answer", "difficulty", "category"}

FullQuestionBodies ==
    [question : {JStr(<<"b", "a">>), JStr(<<" ">>), JInt(1)},
     answer : {JStr(<<"A">>), JStr(<<>>)},
     difficulty : {JInt(1), JStr(<<"2">>), JStr(<<"x">>)},
     category : {JInt(1), JStr(<<" ", "2">>), JNull}]
AddBodies ==
    {NullBody, Body(<<>>)}
    \cup {Body(o) : o \in FullQuestionBodies}
    \cup {Body(Without(o, k)) :
            o \in {[question |-> JStr(<<"b", "a">>), answer |-> JStr(<<"A">>),
                    difficulty |-> JInt(1), category |-> JInt(1)]},
            k \in required_fields}

\* the body of the try block
add_question_try(body) ==
    IF body.null THEN Exception
    ELSE IF ~(required_fields \subseteq DOMAIN body.obj)
         THEN Abort(400, "Missing required fields")
    ELSE LET new_question == body.obj.question
             new_answer == body.obj.answer
             new_difficulty == body.obj.difficulty
             new_category == body.obj.category
         IN  IF new_question.t # "str" THEN Exception
             ELSE IF strip(new_question.s) = <<>>
                  THEN Abort(400, "Question and Answer cannot be empty or only whitespace")
             ELSE IF new_answer.t # "str" THEN Exception
             ELSE IF strip(new_answer.s) = <<>>
                  THEN Abort(400, "Question and Answer cannot be empty or only whitespace")
             ELSE IF ~CanInt(new_difficulty) \/ ~CanInt(new_category) THEN Exception
             ELSE Return([status |-> 201, success |-> TRUE, created |-> nextQid])

\* mutant: the abort(400) of the try block is let through
add_question_passHttp(body) ==
    LET r == add_question_try(body)
    IN  IF r.raised /\ ~r.http
        THEN Respond(Abort(422, "Unprocessable request")) ELSE Respond(r)

\* except Exception: abort(422, description="Unprocessable request")
add_question(body) ==
    LET r == add_question_try(body)
    IN  IF r.raised THEN Respond(Abort(422, "Unprocessable request")) ELSE Respond(r)

\* mutant: the insert is never committed
add_question_rows_noCommit(body) == questions

\* Question.insert(): the rows once the handler is through
add_question_rows(body) ==
    IF add_question_try(body).raised THEN questions
    ELSE questions \cup
           {Question(nextQid, body.obj.question.s, body.obj.answer.s,
                     PyInt(body.obj.category), PyInt(body.obj.difficulty))}

AddQuestion ==
    /\ req.op = "none"
    /\ \E body \in AddBodies :
          /\ add_question_try(body).raised \/ writes < MaxWrites
          /\ req' = [op |-> "add_question", body |-> body]
          /\ resp' = add_question(body)
          /\ questions' = add_question_rows(body)
          /\ nextQid' = IF add_question_try(body).raised THEN nextQid ELSE nextQid + 1
          /\ writes' = IF add_question_try(body).raised THEN writes ELSE writes + 1
    /\ UNCHANGED <<categories, nextCid>>

-----------------------------------------------------------------------------
(* POST /questions/search *)

SearchBodies ==
    {NullBody, Body(<<>>)}
    \cup {Body([searchTerm |-> v]) :
            v \in {JStr(<<"a">>), JStr(<<" ", "B", " ">>), JStr(<<"_">>),
                   JStr(<<"%">>), JStr(<<"a", "a">>), JStr(<<" ">>), JInt(1)}}

\* data.get('searchTerm', '')
SearchTermOf(body) ==
    IF "searchTerm" \in DOMAIN body.obj THEN body.obj.searchTerm ELSE JStr(<<>>)

\* Question.query.filter(Question.question.ilike(f"%{search_term}%")).all()
SearchResults(search_term) ==
    {q \in questions : ilike(q.question, <<"%">> \o search_term \o <<"%">>)}

\* The rows of a query that has no ORDER BY come in no stated order: the
\* list of the response is kept as the set of its items.
search_questions(body) ==
    IF body.null \/ SearchTermOf(body).t # "str" THEN Respond(Exception)
    ELSE LET search_term == strip(SearchTermOf(body).s)
         IN  IF search_term = <<>>
             THEN Respond(Abort(400, "Search term is required"))
             ELSE LET results == SearchResults(search_term)
                      formatted_questions == {format(q) : q \in results}
                  IN  IF results = {}
                      THEN Respond(Return([status |-> 200, success |-> TRUE,
                                           questions |-> {},
                                           total_questions |-> 0]))
                      ELSE Respond(Return(
                               [status |-> 200, success |-> TRUE,
                                questions |-> formatted_questions,
                                total_questions |-> Cardinality(formatted_questions)]))

SearchQuestions ==
    /\ req.op = "none"
    /\ \E body \in SearchBodies :
          /\ req' = [op |-> "search_questions", body |-> body]
          /\ resp' = search_questions(body)
    /\ UNCHANGED store

-----------------------------------------------------------------------------
(* GET /categories/<int:category_id>/questions *)

CategoryIds == 0..3

\* Question.query.filter(Question.category == str(category_id)).all()
QuestionsOfCategory(category_id) ==
    {q \in questions : q.category = ToText(category_id)}

\* mutant: an empty result is returned instead of raising 404
retrieve_questions_by_category_try_noEmptyCheck(category_id) ==
    LET found == QuestionsOfCategory(category_id)
    IN  Return([status |-> 200, success |-> TRUE,
                questions |-> {format(q) : q \in found},
                total_questions |-> Cardinality(found),
                current_category |-> category_id])

\* the body of the try block
retrieve_questions_by_category_try(category_id) ==
    LET found == QuestionsOfCategory(category_id)
    IN  IF found = {} THEN Abort(404, "resource not found")
        ELSE Return([status |-> 200, success |-> TRUE,
                     questions |-> {format(q) : q \in found},
                     total_questions |-> Cardinality(found),
                     current_category |-> category_id])

\* except BaseException: abort(404, description="resource not found")
retrieve_questions_by_category(category_id) ==
    LET r == retrieve_questions_by_category_try(category_id)
    IN  IF r.raised THEN Respond(Abort(404, "resource not found")) ELSE Respond(r)

RetrieveQuestionsByCategory ==
    /\ req.op = "none"
    /\ \E category_id \in CategoryIds :
          /\ req' = [op |-> "retrieve_questions_by_category",
                     category_id |-> category_id]
          /\ resp' = retrieve_questions_by_category(category_id)
    /\ UNCHANGED store

-----------------------------------------------------------------------------
(* POST /quizzes *)

click == <<"c", "l", "i", "c", "k">>

\* quiz_category: null, or an object of the keys it carries
QuizCategories ==
    {NullBody, Body(<<>>),
     Body([type |-> JStr(click), id |-> JInt(0)]),
     Body([type |-> JStr(click)]),
     Body([type |-> JStr(<<"a">>), id |-> JInt(1)]),
     Body([type |-> JStr(<<"b">>), id |-> JStr(<<"2">>)]),
     Body([type |-> JStr(<<"b">>), id |-> JInt(3)]),
     Body([type |-> JStr(<<"a">>)])}

\* previous_questions: a list of ids
PreviousLists == {<<>>, <<1>>, <<2, 1>>, <<1, 2, 3>>}

QuizBodies ==
    {NullBody, Body(<<>>), Body([previous_questions |-> <<>>])}
    \cup {Body([quiz_category |-> c, previous_questions |-> p]) :
            c \in QuizCategories, p \in PreviousLists}

Range(l) == {l[k] : k \in 1..Len(l)}

\* mutant: the filter on previous_questions left out
AvailableQuestions_ignorePrevious(category, previous_questions) ==
    IF category.obj.type = JStr(click)
    THEN questions
    ELSE {q \in questions :
            /\ category.obj.id.t # "null"
            /\ q.category = AsText(category.obj.id)}

\* the rows of the two queries; a number given for the String column
\* category is compared as its text
AvailableQuestions(category, previous_questions) ==
    IF category.obj.type = JStr(click)
    THEN {q \in questions : q.id \notin Range(previous_questions)}
    ELSE {q \in questions :
            /\ category.obj.id.t # "null"
            /\ q.category = AsText(category.obj.id)
            /\ q.id \notin Range(previous_questions)}

\* whether the body of the try block raises: category["type"] and
\* category["id"] on a quiz_category without them
play_quiz_raises(category) ==
    \/ category.null
    \/ "type" \notin DOMAIN category.obj
    \/ category.obj.type # JStr(click) /\ "id" \notin DOMAIN category.obj

\* the responses the handler can give: random.randrange picks the question
play_quiz(body) ==
    IF body.null THEN {Respond(Exception)}
    ELSE IF ~({"quiz_category", "previous_questions"} \subseteq DOMAIN body.obj)
         THEN {Respond(Abort(404, "quiz_category and previous_question is required"))}
    ELSE LET category == body.obj.quiz_category
             previous_questions == body.obj.previous_questions
         IN  IF play_quiz_raises(category)
             THEN {Respond(Abort(422, ""))}
             ELSE LET available_questions ==
                          AvailableQuestions(category, previous_questions)
                  IN  IF available_questions # {}
                      THEN {Respond(Return([status |-> 200, success |-> TRUE,
                                            question |-> <<format(q)>>])) :
                              q \in available_questions}
                      ELSE {Respond(Return([status |-> 200, success |-> TRUE,
                                            question |-> <<>>]))}

PlayQuiz ==
    /\ req.op = "none"
    /\ \E body \in QuizBodies :
          /\ req' = [op |-> "play_quiz", body |-> body]
          /\ resp' \in play_quiz(body)
    /\ UNCHANGED store

-----------------------------------------------------------------------------
(* GET /categories *)

\* Category.query.order_by(Category.type).all(), as the mapping jsonify makes
retrieve_categories ==
    Respond(Return([status |-> 200, success |-> TRUE,
                    categories |-> CategoryMap(categories)]))

RetrieveCategories ==
    /\ req.op = "none"
    /\ req' = [op |-> "retrieve_categories"]
    /\ resp' = retrieve_categories
    /\ UNCHANGED store

-----------------------------------------------------------------------------
(* POST /categories *)

CategoryBodies ==
    {NullBody, Body(<<>>)}
    \cup {Body([category |-> v]) :
            v \in {JStr(<<"a">>), JStr(<<" ", "b">>), JStr(<<"B">>),
                   JStr(<<" ">>), JInt(1)}}

\* mutant: the check for an existing category left out
ExistingCategory_noCheck(new_category) == {}

\* Category.query.filter_by(type=new_category).first()
ExistingCategory(new_category) == {c \in categories : c.type = new_category}

\* mutant: the lookup of an existing category left out of the checks
create_category_returns_noLookup(body) ==
    /\ ~body.null
    /\ "category" \in DOMAIN body.obj
    /\ body.obj.category.t = "str"
    /\ strip(body.obj.category.s) # <<>>

create_category_returns(body) ==
    /\ ~body.null
    /\ "category" \in DOMAIN body.obj
    /\ body.obj.category.t = "str"
    /\ strip(body.obj.category.s) # <<>>
    /\ ExistingCategory(strip(body.obj.category.s)) = {}

create_category(body) ==
    IF body.null \/ DOMAIN body.obj = {} \/ "category" \notin DOMAIN body.obj
    THEN Respond(Abort(400, "Category name is required"))
    ELSE IF body.obj.category.t # "str" THEN Respond(Exception)
    ELSE LET new_category == strip(body.obj.category.s)
         IN  IF new_category = <<>>
             THEN Respond(Abort(400, "Category name cannot be empty or whitespace"))
             ELSE IF ExistingCategory(new_category) # {}
                  THEN Respond(Abort(400, "Category already exists"))
             ELSE Respond(Return([status |-> 200, success |-> TRUE,
                                  created |-> nextCid]))

CreateCategory ==
    /\ req.op = "none"
    /\ \E body \in CategoryBodies :
          /\ ~create_category_returns(body) \/ writes < MaxWrites
          /\ req' = [op |-> "create_category", body |-> body]
          /\ resp' = create_category(body)
          /\ IF create_category_returns(body)
             THEN /\ categories' =
                        categories \cup {Category(nextCid, strip(body.obj.category.s))}
                  /\ nextCid' = nextCid + 1
                  /\ writes' = writes + 1
             ELSE UNCHANGED <<categories, nextCid, writes>>
    /\ UNCHANGED <<questions, nextQid>>

-----------------------------------------------------------------------------
(* after_request: the response leaves the server *)

after_request ==
    /\ req.op # "none"
    /\ req' = [op |-> "none"]
    /\ resp' = [status |-> 0]
    /\ UNCHANGED store

-----------------------------------------------------------------------------

Next ==
    \/ RetrieveQuestions /\ UNCHANGED aux
    \/ DeleteQuestion /\ UNCHANGED aux
    \/ AddQuestion /\ UNCHANGED aux
    \/ SearchQuestions /\ UNCHANGED aux
    \/ RetrieveQuestionsByCategory /\ UNCHANGED aux
    \/ PlayQuiz /\ UNCHANGED aux
    \/ RetrieveCategories /\ UNCHANGED aux
    \/ CreateCategory /\ UNCHANGED aux
    \/ after_request /\ UNCHANGED aux

Spec == Init /\ [][Next]_vars

-----------------------------------------------------------------------------
(* A client that keeps the answer of a GET and asks again later *)

GetOps == {"retrieve_categories", "retrieve_questions"}

\* the response leaves the server; the client keeps the first GET exchange
after_request_kept ==
    /\ after_request
    /\ last' = IF req.op \in GetOps /\ ~last.kept
               THEN [kept |-> TRUE, req |-> req, resp |-> resp,
                     questions |-> questions, categories |-> categories]
               ELSE last
    /\ UNCHANGED <<session, race>>

RepeatNext ==
    \/ RetrieveQuestions /\ UNCHANGED aux
    \/ RetrieveCategories /\ UNCHANGED aux
    \/ DeleteQuestion /\ UNCHANGED aux
    \/ AddQuestion /\ UNCHANGED aux
    \/ CreateCategory /\ UNCHANGED aux
    \/ after_request_kept

\* the tables hold one page of questions, or one question more
RepeatInit ==
    /\ \E n \in (MaxSeed - 1)..MaxSeed : SeededStore(n, MaxCatSeed)
    /\ Idle
    /\ last = NoExchange
    /\ session = NoSession
    /\ race = NoRace

SpecRepeat == RepeatInit /\ [][RepeatNext]_vars

-----------------------------------------------------------------------------
(* A quiz session: the client posts its quiz_category with the ids it has *)
(* been given so far, and appends the id of each question it receives     *)

\* rounds the client plays: more than there are questions
MaxRounds == MaxQuizSeed + 2

\* the quiz_category a session is played with
SessionCategories == {c \in QuizCategories : ~play_quiz_raises(c)}

SessionBody ==
    Body([quiz_category |-> session.category,
          previous_questions |-> session.previous])

\* the client posts the next round and the server answers it
SessionPost ==
    /\ req.op = "none"
    /\ session.rounds < MaxRounds
    /\ req' = [op |-> "play_quiz", body |-> SessionBody]
    /\ resp' \in play_quiz(SessionBody)
    /\ UNCHANGED <<store, aux>>

\* the client receives the answer: it appends the id of the question it was
\* given, or sees that there is none
SessionReceive ==
    /\ req.op = "play_quiz"
    /\ session' =
          [session EXCEPT
             !.rounds = @ + 1,
             !.ended = @ \/ (resp.status = 200 /\ resp.question = <<>>),
             !.previous = IF resp.status = 200 /\ resp.question # <<>>
                          THEN Append(@, resp.question[1].id) ELSE @]
    /\ req' = [op |-> "none"]
    /\ resp' = [status |-> 0]
    /\ UNCHANGED <<store, last, race>>

QuizInit ==
    /\ \E n \in 0..MaxQuizSeed : SeededStore(n, MaxCatSeed)
    /\ Idle
    /\ last = NoExchange
    /\ \E c \in SessionCategories :
          session = [on |-> TRUE, category |-> c, previous |-> <<>>,
                     rounds |-> 0, ended |-> FALSE]
    /\ race = NoRace

QuizNext ==
    \/ SessionPost
    \/ SessionReceive

\* the server answers every request and the client goes on playing
SpecQuiz == QuizInit /\ [][QuizNext]_vars /\ WF_vars(QuizNext)

-----------------------------------------------------------------------------
(* Two POST /categories requests handled at once: each runs its checks,   *)
(* the lookup of an existing category included, in one step and its       *)
(* insert in a later one                                                   *)

Requests == {1, 2}

\* lines 340-352: the checks, against the rows the table holds now
RaceCheck(p) ==
    /\ race[p].pc = "start"
    /\ race' = [race EXCEPT
                  ![p] = IF create_category_returns(race[p].body)
                         THEN [@ EXCEPT !.pc = "checked"]
                         ELSE [@ EXCEPT !.pc = "done",
                                        !.resp = create_category(race[p].body)]]
    /\ UNCHANGED <<store, req, resp, last, session>>

\* lines 356-366: the insert, with no second look at the table
RaceInsert(p) ==
    /\ race[p].pc = "checked"
    /\ categories' =
          categories \cup {Category(nextCid, strip(race[p].body.obj.category.s))}
    /\ nextCid' = nextCid + 1
    /\ writes' = writes + 1
    /\ race' = [race EXCEPT
                  ![p] = [@ EXCEPT !.pc = "done",
                                   !.resp = Respond(Return(
                                       [status |-> 200, success |-> TRUE,
                                        created |-> nextCid]))]]
    /\ UNCHANGED <<questions, nextQid, req, resp, last, session>>

RaceInit ==
    /\ \E c \in 0..MaxCatSeed : SeededStore(0, c)
    /\ Idle
    /\ last = NoExchange
    /\ session = NoSession
    /\ race \in [Requests ->
                   [pc : {"start"}, body : CategoryBodies, resp : {[status |-> 0]}]]

RaceNext ==
    \E p \in Requests :
        \/ RaceCheck(p)
        \/ RaceInsert(p)

SpecRace == RaceInit /\ [][RaceNext]_vars

-----------------------------------------------------------------------------
(* Properties *)

NotFoundEnvelope ==
    [status |-> 404, success |-> FALSE, error |-> 404,
     message |-> "resource not found"]
UnprocessableEnvelope ==
    [status |-> 422, success |-> FALSE, error |-> 422, message |-> "unprocessable"]

Ids(Q) == {q.id : q \in Q}
\* 1-based position of the question with this id in the id-ascending list
Position(id) == Cardinality({q \in questions : q.id <= id})

\* the request asks for page p: ?page=<p in decimal>, or no page for p = 1
AsksPage(r, p) ==
    /\ r.op = "retrieve_questions"
    /\ \/ r.page = [present |-> TRUE, text |-> ToText(p)]
       \/ p = 1 /\ r.page = [present |-> FALSE, text |-> <<>>]

\* C1: GET /questions?page=p, with p >= 1 and a question at 0-based position
\* (p-1)*10 of the id-ascending list, answers 200 with exactly
\* min(10, N-(p-1)*10) questions, the ones at positions (p-1)*10 .. (p-1)*10+9
\* in id-ascending order, and total_questions = N.
C1_PageHoldsItsQuestions ==
    \A p \in 1..3 :
        LET N == Cardinality(questions)
            off == (p - 1) * 10
        IN  (AsksPage(req, p) /\ off < N) =>
                /\ resp.status = 200
                /\ resp.success
                /\ Len(resp.questions) = Min(10, N - off)
                /\ \A k \in 1..Len(resp.questions) :
                      /\ resp.questions[k] \in questions
                      /\ Position(resp.questions[k].id) = off + k
                /\ resp.total_questions = N

C1_Witness ==
    /\ AsksPage(req, 2)
    /\ Cardinality(questions) = 11
    /\ resp.status = 200
    /\ Len(resp.questions) = 1

\* C2: GET /questions?page=p with p beyond the last page (no question at
\* position (p-1)*10, the empty table included) answers 404 "resource not
\* found", also when earlier pages hold questions.
C2_PageBeyondLastIs404 ==
    \A p \in 1..3 :
        (AsksPage(req, p) /\ (p - 1) * 10 >= Cardinality(questions)) =>
            resp = NotFoundEnvelope

C2_Witness ==
    /\ AsksPage(req, 2)
    /\ Cardinality(questions) = 10
    /\ resp = NotFoundEnvelope

\* the body carries the four keys, a non-blank question and answer and a
\* difficulty and category that int() accepts
ValidQuestionBody(body) ==
    /\ ~body.null
    /\ {"question", "answer", "difficulty", "category"} \subseteq DOMAIN body.obj
    /\ body.obj.question.t = "str" /\ strip(body.obj.question.s) # <<>>
    /\ body.obj.answer.t = "str" /\ strip(body.obj.answer.s) # <<>>
    /\ CanInt(body.obj.difficulty)
    /\ CanInt(body.obj.category)

BlankQuestionBody(body) ==
    /\ ~body.null
    /\ {"question", "answer", "difficulty", "category"} \subseteq DOMAIN body.obj
    /\ body.obj.question.t = "str"
    /\ body.obj.answer.t = "str"
    /\ strip(body.obj.question.s) = <<>> \/ strip(body.obj.answer.s) = <<>>

\* C5: POST /questions with the four keys and a question or answer that is
\* empty after trimming answers 400 "Question and Answer cannot be empty or
\* only whitespace", and no question is stored.
C5_BlankIs400 ==
    [][(req'.op = "add_question" /\ BlankQuestionBody(req'.body)) =>
          /\ resp' = [status |-> 400, success |-> FALSE, error |-> 400,
                      message |-> "Question and Answer cannot be empty or only whitespace"]
          /\ questions' = questions]_vars

\* the path segment names the id of a stored question
NamesStoredQuestion(question_id, Q) ==
    IsIntText(question_id) /\ IntOfText(question_id) \in Ids(Q)

\* C6: DELETE /questions/{id} for an id in the store answers 200 with
\* success true and deleted = the identifier of the path; afterwards that
\* question is gone, every other question and every category is unchanged,
\* and the count is down by exactly 1.
C6_DeleteRemovesOneRow ==
    [][(/\ req'.op = "delete_question"
        /\ NamesStoredQuestion(req'.question_id, questions)) =>
          /\ resp' = [status |-> 200, success |-> TRUE,
                      deleted |-> req'.question_id]
          /\ IntOfText(req'.question_id) \notin Ids(questions')
          /\ questions' =
               {q \in questions : q.id # IntOfText(req'.question_id)}
          /\ Cardinality(questions') = Cardinality(questions) - 1
          /\ categories' = categories]_vars

C6_Witness ==
    /\ req.op = "delete_question"
    /\ resp.status = 200
    /\ resp.deleted = <<"2">>
    /\ Cardinality(questions) = 10
    /\ 2 \notin Ids(questions)

\* C7: DELETE /questions/{id} for an id that matches no stored question
\* answers 422 "unprocessable", never 404 "Question not found", and leaves
\* the store unchanged.
C7_DeleteOfMissingIs422 ==
    [][(/\ req'.op = "delete_question"
        /\ ~NamesStoredQuestion(req'.question_id, questions)) =>
          /\ resp' = UnprocessableEnvelope
          /\ questions' = questions
          /\ categories' = categories]_vars

C7_Witness ==
    /\ req.op = "delete_question"
    /\ IsIntText(req.question_id)
    /\ IntOfText(req.question_id) \notin Ids(questions)
    /\ questions # {}
    /\ resp = UnprocessableEnvelope

\* term occurs in text as a substring, letter case ignored
Contains(text, term) ==
    \E i \in 0..(Len(text) - Len(term)) :
        \A k \in 1..Len(term) : lower(text[i + k]) = lower(term[k])

\* the body carries a searchTerm that is non-empty once trimmed
HasSearchTerm(r) ==
    /\ r.op = "search_questions"
    /\ ~r.body.null
    /\ "searchTerm" \in DOMAIN r.body.obj
    /\ r.body.obj.searchTerm.t = "str"
    /\ strip(r.body.obj.searchTerm.s) # <<>>

\* C8: POST /questions/search with a searchTerm that is non-empty after
\* trimming answers 200 with exactly the stored questions whose question
\* text contains the trimmed term as a case-insensitive substring, and
\* total_questions = their number (200 with [] and 0 when none matches).
C8_SearchIsSubstringMatch ==
    HasSearchTerm(req) =>
        LET term == strip(req.body.obj.searchTerm.s)
            matching == {q \in questions : Contains(q.question, term)}
        IN  /\ resp.status = 200
            /\ resp.success
            /\ resp.questions = matching
            /\ resp.total_questions = Cardinality(matching)

\* C9: GET /categories/{id}/questions answers 200 with exactly the stored
\* questions whose category is the string form of id, total_questions =
\* their number and current_category = id when there is one, and 404
\* "resource not found" when there is none.
C9_ByCategory ==
    req.op = "retrieve_questions_by_category" =>
        LET matching == {q \in questions : q.category = ToText(req.category_id)}
        IN  IF matching # {}
            THEN resp = [status |-> 200, success |-> TRUE,
                         questions |-> matching,
                         total_questions |-> Cardinality(matching),
                         current_category |-> req.category_id]
            ELSE resp = NotFoundEnvelope

C9_Witness ==
    /\ req.op = "retrieve_questions_by_category"
    /\ req.category_id = 2
    /\ resp.status = 200
    /\ resp.total_questions = 5
    /\ Cardinality(questions) > 5

\* the body carries both keys
CarriesQuizKeys(r) ==
    /\ r.op = "play_quiz"
    /\ ~r.body.null
    /\ {"quiz_category", "previous_questions"} \subseteq DOMAIN r.body.obj

IsClick(category) ==
    /\ ~category.null
    /\ "type" \in DOMAIN category.obj
    /\ category.obj.type = JStr(click)

\* q may be returned for the request: its id is not in previous_questions
\* and, unless the type is "click", its category equals quiz_category.id
Candidate(q, body) ==
    /\ \A k \in 1..Len(body.obj.previous_questions) :
          body.obj.previous_questions[k] # q.id
    /\ \/ IsClick(body.obj.quiz_category)
       \/ /\ ~body.obj.quiz_category.null
          /\ "id" \in DOMAIN body.obj.quiz_category.obj
          /\ q.category = AsText(body.obj.quiz_category.obj.id)

QuizAnswersCandidate(r, rsp) ==
    LET candidates == {q \in questions : Candidate(q, r.body)}
    IN  /\ rsp.status = 200 /\ rsp.success
        /\ rsp.question # <<>> => rsp.question[1] \in candidates
        /\ rsp.question = <<>> <=> candidates = {}

WellFormedQuizCategory(category) ==
    /\ ~category.null
    /\ "type" \in DOMAIN category.obj
    /\ IsClick(category) \/ "id" \in DOMAIN category.obj

TypesDistinct(C) == \A c, d \in C : c.type = d.type => c = d

\* the body carries a category whose trimmed value is the type of a row
NamesExistingCategory(r, C) ==
    /\ r.op = "create_category"
    /\ ~r.body.null
    /\ "category" \in DOMAIN r.body.obj
    /\ r.body.obj.category.t = "str"
    /\ \E c \in C : c.type = strip(r.body.obj.category.s)

\* C11: with requests handled one at a time and category types pairwise
\* distinct at the start, the types stay pairwise distinct whatever is
\* requested: POST /categories whose trimmed category is exactly the type of
\* an existing category answers 400 "Category already exists" and adds no
\* row.
C11_TypesStayDistinct ==
    /\ []TypesDistinct(categories)
    /\ [][NamesExistingCategory(req', categories) =>
            /\ resp' = [status |-> 400, success |-> FALSE, error |-> 400,
                        message |-> "Category already exists"]
            /\ categories' = categories]_vars

C11_Witness ==
    /\ req.op = "create_category"
    /\ resp.status = 400
    /\ resp.message = "Category already exists"
    /\ req.body.obj.category = JStr(<<" ", "b">>)
    /\ Cardinality(categories) = 2

\* C12: GET /categories answers 404 "resource not found" when the categories
\* table is empty, and 200 with success true and the id-to-type mapping of
\* all categories otherwise.
C12_EmptyCategoriesIs404 ==
    req.op = "retrieve_categories" =>
        IF categories = {}
        THEN resp = NotFoundEnvelope
        ELSE /\ resp.status = 200
             /\ resp.success
             /\ DOMAIN resp.categories = {c.id : c \in categories}
             /\ \A c \in categories : resp.categories[c.id] = c.type

\* C13: every request, whatever its body, is answered by a success envelope
\* or by an error envelope {success: false, error, message} of status 400,
\* 404 or 422: no exception leaves the handler.
C13_AlwaysAnEnvelope ==
    req.op # "none" =>
        \/ resp.status \in {200, 201} /\ resp.success
        \/ /\ resp.status \in {400, 404, 422}
           /\ ~resp.success
           /\ resp.error = resp.status

\* the request now answered is the GET the client kept, asked of the same
\* tables
RepeatsKept ==
    /\ last.kept
    /\ req.op \in GetOps
    /\ req = last.req
    /\ questions = last.questions
    /\ categories = last.categories

SessionCandidates ==
    {q \in questions :
        \/ IsClick(session.category)
        \/ q.category = AsText(session.category.obj.id)}

\* after r answered rounds the client holds min(r, K) ids, all different,
\* all of candidates: each of the first K rounds gave a new candidate and
\* every later round gave none
SessionInv ==
    LET K == Cardinality(SessionCandidates)
        previous == session.previous
    IN  /\ \A i, j \in 1..Len(previous) : previous[i] = previous[j] => i = j
        /\ \A i \in 1..Len(previous) : previous[i] \in Ids(SessionCandidates)
        /\ Len(previous) = Min(session.rounds, K)
        /\ session.ended <=> session.rounds > K
        /\ req.op = "play_quiz" =>
              /\ resp.status = 200
              /\ resp.question = <<>> <=> session.rounds >= K

\* C16: in a quiz session over unchanged storage that starts with no
\* previous questions and appends each returned id, no question is returned
\* twice, each of the K candidates is returned exactly once in the first K
\* rounds, round K+1 and every later round return question null, and so the
\* session ends after finitely many rounds.
C16_SessionExhaustsCandidates ==
    /\ []SessionInv
    /\ <>session.ended

C16_Witness ==
    /\ session.ended
    /\ IsClick(session.category)
    /\ Len(session.previous) = 4
    /\ session.previous[1] = 3
    /\ session.rounds = 6

\* the category name a request in flight asks for
RaceName(p) == strip(race[p].body.obj.category.s)

\* request p has inserted its category
RaceInserted(p) == race[p].pc = "done" /\ race[p].resp.status = 200

\* two rows of the same type exist only when both requests asked for that
\* type and both inserted
DuplicatesOnlyByRace ==
    ~TypesDistinct(categories) =>
        /\ \A p \in Requests : RaceInserted(p)
        /\ RaceName(1) = RaceName(2)

\* a request whose checks run when its category exists is rejected
LateCheckRejects ==
    \A p \in Requests :
        (/\ race[p].pc = "start"
         /\ race'[p].pc # "start"
         /\ ~race[p].body.null
         /\ "category" \in DOMAIN race[p].body.obj
         /\ race[p].body.obj.category.t = "str"
         /\ \E c \in categories : c.type = RaceName(p)) =>
            /\ race'[p].pc = "done"
            /\ race'[p].resp = [status |-> 400, success |-> FALSE, error |-> 400,
                                message |-> "Category already exists"]
            /\ categories' = categories

\* C15: the duplicate check of POST /categories is check-then-act: a
\* request whose check runs after the other's insert is rejected, but two
\* requests for the same new name can both pass the check before either
\* inserts, and then both insert: two categories of one type (C15_Witness
\* is that state).
C15_DuplicateOnlyWhenBothPassedCheck ==
    /\ []DuplicatesOnlyByRace
    /\ [][LateCheckRejects]_vars

C15_Witness ==
    /\ race # NoRace
    /\ ~TypesDistinct(categories)
    /\ \A p \in Requests : RaceInserted(p)
    /\ race[1].resp.created # race[2].resp.created

====
